---- MODULE Spec2Model ----
(***************************************************************************)
(* Model of src/app.py: the rule-based advice scorer and the sector        *)
(* concentration aggregator of AnalysisEngine, and the /analyse handler    *)
(* with its process-wide usage tracker.                                    *)
(*                                                                         *)
(* Numbers.  Python computes P/L and sector percentages in floating point. *)
(* The model keeps every quotient as an exact fraction [num, den] with     *)
(* den > 0 and compares by cross-multiplication.  Money is counted in      *)
(* cents, so the tracker's total_bill is an integer.                       *)
(*                                                                         *)
(* Text.  An advice entry is the record of the values that app.py formats  *)
(* into the advice text; a joined reason string is the sequence of its     *)
(* reasons.                                                                *)
(***************************************************************************)
EXTENDS Integers, Sequences, FiniteSets, TLC

VARIABLES args, rets, usage_tracker, requests

vars == <<args, rets, usage_tracker, requests>>

-----------------------------------------------------------------------------
(* Bounds of the model *)

MaxLen == 2

NumRequests == 2

-----------------------------------------------------------------------------
(* Values of the program *)

COST_PER_PORTFOLIO == 200

COST_PER_ADVICE == 25

RiskProfiles == {"Conservative", "Moderate", "Aggressive"}

AverageIn == "Consider buying more (Averaging)"

StronglyReduce == "Strongly consider selling"

Reduce == "Consider reducing position"

HoldRecovery == "Consider holding for recovery"

HoldUpside == "Hold for potential upside"

HoldMonitor == "Hold and Monitor"

AveragingRationale == <<"The stock shows positive short-term signals while being in a healthy long-term uptrend and not overbought.">>

NeutralRationale == <<"the current indicators are neutral.">>

Below50 == "it's trading below its 50-Day trendline"

Overbought == "it's in the overbought zone (RSI > 70)"

Oversold == "it's in the oversold zone (RSI < 30)"

HighVolumeFall == "it's falling on high volume"

SellingPressure == "it's facing selling pressure today"

MissingDataVerdict == "Could not calculate diversification due to missing data."

WarningVerdict == "Diversification Warning"

GoodVerdict == "Good Diversification"

-----------------------------------------------------------------------------
(* Results of a call: a returned value or a raised exception *)

NoRet == [kind |-> "none"]

Return(v) == [kind |-> "return", value |-> v]

Raise(e) == [kind |-> "raise", error |-> e]

(* Python's a / b: ZeroDivisionError when b = 0, else the exact quotient. *)
Divide(a, b) ==
    IF b = 0 THEN Raise("ZeroDivisionError")
    ELSE IF b > 0 THEN Return([num |-> a, den |-> b])
    ELSE Return([num |-> -a, den |-> -b])

(* q * k for a quotient q *)
Times(q, k) == [num |-> q.num * k, den |-> q.den]

(* q < k and q > k for a quotient q and an integer k *)
Less(q, k) == q.num < k * q.den

Greater(q, k) == q.num > k * q.den

-----------------------------------------------------------------------------
(* AnalysisEngine._get_final_advice *)

Adjust(score, risk) ==
    LET s1 == IF risk = "Conservative" THEN score - 1 ELSE score
    IN  IF risk = "Aggressive" THEN s1 + 1 ELSE s1

get_final_advice_swapped(score0, pnl, risk, reasons, live_stock_data) ==
    LET reason_str == IF reasons # <<>> THEN reasons ELSE NeutralRationale
        score == Adjust(score0, risk)
        is_healthy_long_term == live_stock_data.price > live_stock_data.ma200
        is_not_overbought == live_stock_data.rsi < 65
    IN  IF score >= 1 /\ is_healthy_long_term /\ is_not_overbought /\ Less(pnl, 15)
        THEN [advice |-> AverageIn, reason |-> AveragingRationale]
        ELSE IF score <= -3 THEN [advice |-> StronglyReduce, reason |-> reason_str]
        ELSE IF score <= -1 THEN [advice |-> Reduce, reason |-> reason_str]
        ELSE IF score >= 2 THEN [advice |-> HoldUpside, reason |-> reason_str]
        ELSE IF score >= 2 /\ Less(pnl, 0)
             THEN [advice |-> HoldRecovery, reason |-> reason_str]
        ELSE [advice |-> HoldMonitor, reason |-> reason_str]

get_final_advice(score0, pnl, risk, reasons, live_stock_data) ==
    LET reason_str == IF reasons # <<>> THEN reasons ELSE NeutralRationale
        score == Adjust(score0, risk)
        is_healthy_long_term == live_stock_data.price > live_stock_data.ma200
        is_not_overbought == live_stock_data.rsi < 65
    IN  IF score >= 1 /\ is_healthy_long_term /\ is_not_overbought /\ Less(pnl, 15)
        THEN [advice |-> AverageIn, reason |-> AveragingRationale]
        ELSE IF score <= -3 THEN [advice |-> StronglyReduce, reason |-> reason_str]
        ELSE IF score <= -1 THEN [advice |-> Reduce, reason |-> reason_str]
        ELSE IF score >= 2 /\ Less(pnl, 0)
             THEN [advice |-> HoldRecovery, reason |-> reason_str]
        ELSE IF score >= 2 THEN [advice |-> HoldUpside, reason |-> reason_str]
        ELSE [advice |-> HoldMonitor, reason |-> reason_str]

-----------------------------------------------------------------------------
(* AnalysisEngine.generate_advice *)

(* The signals of lines 82-96 that fire for one snapshot, in program order, *)
(* each with the amount it adds to the score.                               *)
TrendSignal(data) ==
    IF data.price < data.ma50 THEN <<[delta |-> -2, reason |-> Below50]>> ELSE <<>>

RsiSignalBothBranches(data) ==
    IF data.rsi > 70 THEN <<[delta |-> -1, reason |-> Overbought]>>
    ELSE IF data.rsi < 30 THEN <<[delta |-> 2, reason |-> Oversold]>>
    ELSE <<>>

RsiSignal(data) ==
    IF data.rsi > 70 THEN <<[delta |-> -1, reason |-> Overbought]>>
    ELSE IF data.rsi < 30 THEN <<[delta |-> 1, reason |-> Oversold]>>
    ELSE <<>>

VolumeSignal(data) ==
    IF data.change_percent < -2 /\ 2 * data.volume > 3 * data.avg_vol
    THEN <<[delta |-> -2, reason |-> HighVolumeFall]>>
    ELSE IF data.change_percent < -2
    THEN <<[delta |-> -1, reason |-> SellingPressure]>>
    ELSE <<>>

Signals(data) == TrendSignal(data) \o RsiSignal(data) \o VolumeSignal(data)

RECURSIVE SumDeltas(_)
SumDeltas(signals) ==
    IF signals = <<>> THEN 0 ELSE Head(signals).delta + SumDeltas(Tail(signals))

Reasons(signals) == [i \in 1..Len(signals) |-> signals[i].reason]

StatusIcon(pnl_percent) ==
    IF Greater(pnl_percent, 2) THEN "green"
    ELSE IF Less(pnl_percent, -2) THEN "red"
    ELSE "blue"

(* Lines 77-105 for one stock that has a snapshot: the advice entry, or the *)
(* exception of the P/L division.                                          *)
AdviceFor(stock, data, risk_profile) ==
    LET quotient == Divide(data.price - stock.avg_price, stock.avg_price)
    IN  IF quotient.kind = "raise" THEN quotient
        ELSE LET pnl_percent == Times(quotient.value, 100)
                 signals == Signals(data)
                 score == SumDeltas(signals)
                 reasons == Reasons(signals)
                 final == get_final_advice(score, pnl_percent, risk_profile, reasons, data)
             IN  Return([ticker |-> stock.ticker,
                         icon |-> StatusIcon(pnl_percent),
                         pnl |-> pnl_percent,
                         advice |-> final.advice,
                         reason |-> final.reason,
                         score |-> score,
                         reasons |-> reasons])

RECURSIVE generate_advice_from(_, _, _, _, _)
generate_advice_from(portfolio, live_data, risk_profile, i, advice_list) ==
    IF i > Len(portfolio) THEN Return(advice_list)
    ELSE LET stock == portfolio[i]
         IN  IF stock.ticker \notin DOMAIN live_data
             THEN generate_advice_from(portfolio, live_data, risk_profile, i + 1, advice_list)
             ELSE LET entry == AdviceFor(stock, live_data[stock.ticker], risk_profile)
                  IN  IF entry.kind = "raise" THEN entry
                      ELSE generate_advice_from(portfolio, live_data, risk_profile, i + 1,
                                                Append(advice_list, entry.value))

generate_advice(portfolio, live_data, risk_profile) ==
    generate_advice_from(portfolio, live_data, risk_profile, 1, <<>>)

-----------------------------------------------------------------------------
(* AnalysisEngine.analyse_diversification *)

(* sector_values[sector] += current_value on a defaultdict(float), kept as  *)
(* the sequence of its items in insertion order.                            *)
AddTo(sector_values, sector, current_value) ==
    IF \E k \in 1..Len(sector_values) : sector_values[k].sector = sector
    THEN [k \in 1..Len(sector_values) |->
            IF sector_values[k].sector = sector
            THEN [sector |-> sector, value |-> sector_values[k].value + current_value]
            ELSE sector_values[k]]
    ELSE Append(sector_values, [sector |-> sector, value |-> current_value])

(* Lines 134-140: the sector sums and the total after the stocks from i on. *)
RECURSIVE SumSectors(_, _, _, _)
SumSectors(portfolio, live_data, i, acc) ==
    IF i > Len(portfolio) THEN acc
    ELSE LET stock == portfolio[i]
         IN  IF stock.ticker \in DOMAIN live_data
             THEN LET current_value == stock.quantity * live_data[stock.ticker].price
                      sector == live_data[stock.ticker].sector
                  IN  SumSectors(portfolio, live_data, i + 1,
                          [sector_values |-> AddTo(acc.sector_values, sector, current_value),
                           total_value |-> acc.total_value + current_value])
             ELSE SumSectors(portfolio, live_data, i + 1, acc)

ExceedsOrEquals(percentage) == ~Less(percentage, 40)

Exceeds(percentage) == Greater(percentage, 40)

(* Lines 143-146: the concentrated sectors among the items from k on, with  *)
(* the divisors of the divisions performed so far.                          *)
RECURSIVE Concentrated(_, _, _, _)
Concentrated(sector_values, total_value, k, acc) ==
    IF k > Len(sector_values) THEN Return(acc)
    ELSE LET quotient == Divide(sector_values[k].value, total_value)
         IN  IF quotient.kind = "raise" THEN quotient
             ELSE LET percentage == Times(quotient.value, 100)
                      divisors == Append(acc.divisors, total_value)
                  IN  Concentrated(sector_values, total_value, k + 1,
                          [sectors |-> IF Exceeds(percentage)
                                       THEN Append(acc.sectors, sector_values[k].sector)
                                       ELSE acc.sectors,
                           divisors |-> divisors])

analyse_diversification_unguarded(portfolio, live_data) ==
    LET sums == SumSectors(portfolio, live_data, 1, [sector_values |-> <<>>, total_value |-> 0])
        found == Concentrated(sums.sector_values, sums.total_value, 1,
                              [sectors |-> <<>>, divisors |-> <<>>])
    IN  IF found.kind = "raise" THEN found
        ELSE IF found.value.sectors # <<>>
        THEN Return([verdict |-> WarningVerdict, sectors |-> found.value.sectors,
                     divisors |-> found.value.divisors])
        ELSE Return([verdict |-> GoodVerdict, sectors |-> <<>>,
                     divisors |-> found.value.divisors])

analyse_diversification(portfolio, live_data) ==
    LET sums == SumSectors(portfolio, live_data, 1, [sector_values |-> <<>>, total_value |-> 0])
        found == Concentrated(sums.sector_values, sums.total_value, 1,
                              [sectors |-> <<>>, divisors |-> <<>>])
    IN  IF sums.total_value = 0
        THEN Return([verdict |-> MissingDataVerdict, sectors |-> <<>>, divisors |-> <<>>])
        ELSE IF found.kind = "raise" THEN found
        ELSE IF found.value.sectors # <<>>
        THEN Return([verdict |-> WarningVerdict, sectors |-> found.value.sectors,
                     divisors |-> found.value.divisors])
        ELSE Return([verdict |-> GoodVerdict, sectors |-> <<>>,
                     divisors |-> found.value.divisors])

-----------------------------------------------------------------------------
(* analyse_portfolio, lines 181-193: the part of the handler that runs once *)
(* the market data is there.                                                *)

RECURSIVE BuildAnalysis(_, _, _, _)
BuildAnalysis(portfolio_data, live_market_data, i, acc) ==
    IF i > Len(portfolio_data) THEN acc
    ELSE LET stock == portfolio_data[i]
         IN  IF stock.ticker \in DOMAIN live_market_data
             THEN LET live_info == live_market_data[stock.ticker]
                      investment == stock.quantity * stock.averagePrice
                      currentValue == stock.quantity * live_info.price
                  IN  BuildAnalysis(portfolio_data, live_market_data, i + 1,
                        [table_results |-> Append(acc.table_results,
                            [ticker |-> stock.ticker, quantity |-> stock.quantity,
                             averagePrice |-> stock.averagePrice,
                             investment |-> investment, currentPrice |-> live_info.price,
                             currentValue |-> currentValue, pnl |-> currentValue - investment,
                             change_percent |-> live_info.change_percent]),
                         analysis_portfolio |-> Append(acc.analysis_portfolio,
                            [ticker |-> stock.ticker, quantity |-> stock.quantity,
                             avg_price |-> stock.averagePrice])])
             ELSE BuildAnalysis(portfolio_data, live_market_data, i + 1, acc)

EndpointRiskAggressive == "Aggressive"

EndpointRisk == "Moderate"

Analyse(portfolio_data, live_market_data) ==
    LET built == BuildAnalysis(portfolio_data, live_market_data, 1,
                               [table_results |-> <<>>, analysis_portfolio |-> <<>>])
        generated_advice == generate_advice(built.analysis_portfolio, live_market_data, EndpointRisk)
        diversification_advice == analyse_diversification(built.analysis_portfolio, live_market_data)
    IN  IF generated_advice.kind = "raise" THEN generated_advice
        ELSE IF diversification_advice.kind = "raise" THEN diversification_advice
        ELSE Return([table_data |-> built.table_results,
                     advice |-> generated_advice.value,
                     diversification_advice |-> diversification_advice.value])

-----------------------------------------------------------------------------
(* Inputs of the direct calls *)

Tickers == {"AAA", "BBB"}

Sectors == {"Tech", "Energy"}

SeqsUpTo(S, n) == UNION {[1..k -> S] : k \in 0..n}

LiveOver(S) == UNION {[D -> S] : D \in SUBSET Tickers}

(* (50-day average, 200-day average) around a price of 2: below the 50-day *)
(* trend, above both averages, and between them.                           *)
Averages == {<<3, 1>>, <<2, 1>>, <<2, 2>>}

(* (change_percent, volume) against an average volume of 1 *)
Moves == {<<-2, 2>>, <<-3, 1>>, <<-3, 2>>}

ScorerSnapshots ==
    {[price |-> 2, change_percent |-> m[1], sector |-> "Tech", ma50 |-> a[1],
      ma200 |-> a[2], rsi |-> r, volume |-> m[2], avg_vol |-> 1] :
        a \in Averages, r \in {29, 30, 71}, m \in Moves}

ScorerStocks == [ticker : Tickers, quantity : {1}, avg_price : {0, 1, 4}]

ScorerArgs ==
    [portfolio : SeqsUpTo(ScorerStocks, MaxLen), live_data : LiveOver(ScorerSnapshots)]

SectorSnapshots ==
    {[price |-> p, change_percent |-> 0, sector |-> s, ma50 |-> 1, ma200 |-> 1,
      rsi |-> 50, volume |-> 1, avg_vol |-> 1] : p \in 0..2, s \in Sectors}

SectorStocks == [ticker : Tickers, quantity : -1..3, avg_price : {1}]

SectorArgs ==
    [portfolio : SeqsUpTo(SectorStocks, MaxLen), live_data : LiveOver(SectorSnapshots)]

AnyRisk == RiskProfiles \cup {"Speculative"}

AdviceSnapshots ==
    {[price |-> 2, change_percent |-> 0, sector |-> "Tech", ma50 |-> 2,
      ma200 |-> a, rsi |-> r, volume |-> 1, avg_vol |-> 1] :
        a \in {1, 2}, r \in {25, 64, 65, 75}}

AdviceArgs ==
    [score : -6..3,
     pnl : {[num |-> n, den |-> 1] : n \in {-50, -1, 0, 14, 15, 50}},
     risk : AnyRisk,
     reasons : {<<>>, <<Below50>>, <<Overbought, SellingPressure>>},
     live_stock_data : AdviceSnapshots]

NoRets ==
    [final |-> NoRet, advice |-> NoRet, risk |-> "none", verdict |-> NoRet, response |-> NoRet]

ZeroTracker == [portfolios_analyzed |-> 0, advice_generated |-> 0, total_bill |-> 0]

(* Inputs of the /analyse handler *)

Requests == 1..NumRequests

(* Well-formed stocks, and stocks with one malformed field: a negative    *)
(* quantity or a zero averagePrice.                                       *)
RequestStocks ==
    {s \in [ticker : {"AAA"}, quantity : {-1, 1}, averagePrice : {0, 1}] :
        s.quantity > 0 \/ s.averagePrice > 0}

RequestBodies == [portfolio : SeqsUpTo(RequestStocks, MaxLen)]

ServerSnapshots == {s \in SectorSnapshots : s.price = 2 /\ s.sector = "Tech"}

(* PathwayClient.fetch_live_stock_data: a snapshot for each ticker it could *)
(* resolve, none for the others, and {} when the provider call failed.      *)
fetch_live_stock_data(tickers) ==
    UNION {[D -> ServerSnapshots] : D \in SUBSET {tickers[i] : i \in 1..Len(tickers)}}

NoLive == [t \in {} |-> 0]

NewRequest ==
    [pc |-> "receive", portfolio_data |-> <<>>, loaded |-> 0,
     live_market_data |-> NoLive, core_started |-> FALSE, printed |-> "",
     response |-> NoRet]

NoRequests == [r \in Requests |-> NewRequest]

-----------------------------------------------------------------------------
(* Direct calls of the engine *)

InitAdvice ==
    /\ args \in AdviceArgs
    /\ rets = NoRets
    /\ usage_tracker = ZeroTracker
    /\ requests = NoRequests

CallGetFinalAdvice ==
    /\ rets = NoRets
    /\ rets' = [rets EXCEPT !.final =
                  Return(get_final_advice(args.score, args.pnl, args.risk,
                                          args.reasons, args.live_stock_data))]
    /\ UNCHANGED <<args, usage_tracker, requests>>

NextAdvice == CallGetFinalAdvice

SpecAdvice == InitAdvice /\ [][NextAdvice]_vars

InitCore ==
    /\ args \in ScorerArgs \cup SectorArgs
    /\ rets = NoRets
    /\ usage_tracker = ZeroTracker
    /\ requests = NoRequests

CallGenerateAdvice ==
    /\ rets = NoRets
    /\ \E risk_profile \in RiskProfiles :
         rets' = [rets EXCEPT !.risk = risk_profile,
                              !.advice = generate_advice(args.portfolio, args.live_data,
                                                         risk_profile)]
    /\ UNCHANGED <<args, usage_tracker, requests>>

CallAnalyseDiversification ==
    /\ rets = NoRets
    /\ rets' = [rets EXCEPT !.verdict = analyse_diversification(args.portfolio, args.live_data)]
    /\ UNCHANGED <<args, usage_tracker, requests>>

(* The stocks as the request body carries them (averagePrice for avg_price) *)
AsPortfolioData(portfolio) ==
    [i \in 1..Len(portfolio) |->
        [ticker |-> portfolio[i].ticker, quantity |-> portfolio[i].quantity,
         averagePrice |-> portfolio[i].avg_price]]

CallAnalyse ==
    /\ rets = NoRets
    /\ rets' = [rets EXCEPT !.response = Analyse(AsPortfolioData(args.portfolio), args.live_data)]
    /\ UNCHANGED <<args, usage_tracker, requests>>

NextCore == CallGenerateAdvice \/ CallAnalyseDiversification \/ CallAnalyse

SpecCore == InitCore /\ [][NextCore]_vars

-----------------------------------------------------------------------------
(* The /analyse handler, one thread per request *)

Respond(status, body) == [kind |-> "response", status |-> status, body |-> body]

num_advice_items(r) == Len(requests[r].portfolio_data)

current_bill(r) == COST_PER_PORTFOLIO + (num_advice_items(r) * COST_PER_ADVICE)

Init ==
    /\ args = [portfolio |-> <<>>, live_data |-> NoLive]
    /\ rets = NoRets
    /\ usage_tracker = ZeroTracker
    /\ requests = NoRequests

(* Lines 164-167 *)
Receive(r) ==
    /\ requests[r].pc = "receive"
    /\ \E data \in RequestBodies :
         IF data.portfolio = <<>>
         THEN requests' = [requests EXCEPT ![r].pc = "done",
                             ![r].response = Respond(400, "Portfolio data is missing.")]
         ELSE requests' = [requests EXCEPT ![r].pc = "load_portfolios_analyzed",
                             ![r].portfolio_data = data.portfolio]
    /\ UNCHANGED <<args, rets, usage_tracker>>

(* Line 172: usage_tracker["portfolios_analyzed"] += 1, its read and its write *)
LoadPortfoliosAnalyzed(r) ==
    /\ requests[r].pc = "load_portfolios_analyzed"
    /\ requests' = [requests EXCEPT ![r].pc = "store_portfolios_analyzed",
                                    ![r].loaded = usage_tracker.portfolios_analyzed]
    /\ UNCHANGED <<args, rets, usage_tracker>>

StorePortfoliosAnalyzed(r) ==
    /\ requests[r].pc = "store_portfolios_analyzed"
    /\ usage_tracker' = [usage_tracker EXCEPT !.portfolios_analyzed = requests[r].loaded + 1]
    /\ requests' = [requests EXCEPT ![r].pc = "load_advice_generated", ![r].loaded = 0]
    /\ UNCHANGED <<args, rets>>

(* Line 173 *)
LoadAdviceGenerated(r) ==
    /\ requests[r].pc = "load_advice_generated"
    /\ requests' = [requests EXCEPT ![r].pc = "store_advice_generated",
                                    ![r].loaded = usage_tracker.advice_generated]
    /\ UNCHANGED <<args, rets, usage_tracker>>

StoreAdviceGenerated(r) ==
    /\ requests[r].pc = "store_advice_generated"
    /\ usage_tracker' = [usage_tracker EXCEPT
                           !.advice_generated = requests[r].loaded + num_advice_items(r)]
    /\ requests' = [requests EXCEPT ![r].pc = "load_total_bill", ![r].loaded = 0]
    /\ UNCHANGED <<args, rets>>

(* Line 174 *)
LoadTotalBill(r) ==
    /\ requests[r].pc = "load_total_bill"
    /\ requests' = [requests EXCEPT ![r].pc = "store_total_bill",
                                    ![r].loaded = usage_tracker.total_bill]
    /\ UNCHANGED <<args, rets, usage_tracker>>

StoreTotalBill(r) ==
    /\ requests[r].pc = "store_total_bill"
    /\ usage_tracker' = [usage_tracker EXCEPT !.total_bill = requests[r].loaded + current_bill(r)]
    /\ requests' = [requests EXCEPT ![r].pc = "fetch", ![r].loaded = 0]
    /\ UNCHANGED <<args, rets>>

(* Lines 176-179 *)
Fetch(r) ==
    /\ requests[r].pc = "fetch"
    /\ LET tickers_to_fetch == [i \in 1..Len(requests[r].portfolio_data) |->
                                  requests[r].portfolio_data[i].ticker]
       IN  \E live_market_data \in fetch_live_stock_data(tickers_to_fetch) :
             IF DOMAIN live_market_data = {}
             THEN requests' = [requests EXCEPT ![r].pc = "done",
                    ![r].response = Respond(500,
                        "Could not fetch live market data for the provided tickers.")]
             ELSE requests' = [requests EXCEPT ![r].pc = "analyse",
                    ![r].live_market_data = live_market_data]
    /\ UNCHANGED <<args, rets, usage_tracker>>

(* Lines 181-207; printed is the exception that line 206 prints. *)
RunAnalysis(r) ==
    /\ requests[r].pc = "analyse"
    /\ LET result == Analyse(requests[r].portfolio_data, requests[r].live_market_data)
       IN  requests' = [requests EXCEPT ![r].pc = "done", ![r].core_started = TRUE,
              ![r].printed = IF result.kind = "raise" THEN result.error ELSE "",
              ![r].response =
                 IF result.kind = "raise"
                 THEN Respond(500, "An internal server error occurred.")
                 ELSE Respond(200, [table_data |-> result.value.table_data,
                        advice |-> result.value.advice,
                        diversification_advice |-> result.value.diversification_advice,
                        usage_stats |->
                          [portfolios_analyzed |-> usage_tracker.portfolios_analyzed,
                           total_bill |-> usage_tracker.total_bill]])]
    /\ UNCHANGED <<args, rets, usage_tracker>>

Next ==
    \E r \in Requests :
        \/ Receive(r)
        \/ LoadPortfoliosAnalyzed(r)
        \/ StorePortfoliosAnalyzed(r)
        \/ LoadAdviceGenerated(r)
        \/ StoreAdviceGenerated(r)
        \/ LoadTotalBill(r)
        \/ StoreTotalBill(r)
        \/ Fetch(r)
        \/ RunAnalysis(r)

Spec == Init /\ [][Next]_vars

-----------------------------------------------------------------------------
(* Properties of _get_final_advice, checked under SpecAdvice *)

AdjustedScore ==
    args.score + (CASE args.risk = "Conservative" -> -1
                    [] args.risk = "Aggressive" -> 1
                    [] OTHER -> 0)

Averaging ==
    /\ AdjustedScore >= 1
    /\ args.live_stock_data.price > args.live_stock_data.ma200
    /\ args.live_stock_data.rsi < 65
    /\ args.pnl.num < 15 * args.pnl.den

Returned(ret) == ret.kind = "return"

(* C1: for every score, P/L, snapshot and risk profile of the three, the    *)
(* recommendation is that of the first matching rule, on the score adjusted *)
(* by -1 (Conservative), +1 (Aggressive) or 0 (Moderate): AverageIn exactly *)
(* when the adjusted score is >= 1, the price is above the 200-day average, *)
(* RSI < 65 and P/L < 15; otherwise StronglyReduce at <= -3, Reduce at -2   *)
(* and -1, HoldRecovery at >= 2 with P/L < 0, HoldUpside at >= 2 with       *)
(* P/L >= 0, HoldMonitor at 0 and 1.  A score of 0 under Moderate gives     *)
(* HoldMonitor.                                                            *)
C1_FirstMatchingRule ==
    (Returned(rets.final) /\ args.risk \in RiskProfiles) =>
        LET advice == rets.final.value.advice
            loss == args.pnl.num < 0
        IN  /\ (advice = AverageIn) <=> Averaging
            /\ ~Averaging =>
                 /\ (advice = StronglyReduce) <=> AdjustedScore <= -3
                 /\ (advice = Reduce) <=> AdjustedScore \in {-2, -1}
                 /\ (advice = HoldRecovery) <=> (AdjustedScore >= 2 /\ loss)
                 /\ (advice = HoldUpside) <=> (AdjustedScore >= 2 /\ ~loss)
                 /\ (advice = HoldMonitor) <=> AdjustedScore \in {0, 1}
            /\ (args.score = 0 /\ args.risk = "Moderate") => advice = HoldMonitor

(* An Aggressive call whose adjusted score and loss would also match the   *)
(* HoldRecovery rule and that returns AverageIn, the earlier rule.          *)
C1_Witness ==
    /\ Returned(rets.final)
    /\ args.risk = "Aggressive"
    /\ AdjustedScore >= 2
    /\ args.pnl.num < 0
    /\ rets.final.value.advice = AverageIn

-----------------------------------------------------------------------------
(* Properties of generate_advice and analyse_diversification, checked under *)
(* SpecCore                                                                *)

Positions == 1..Len(args.portfolio)

HasSnapshot(i) == args.portfolio[i].ticker \in DOMAIN args.live_data

SnapshotOf(i) == args.live_data[args.portfolio[i].ticker]

Resolved == {i \in Positions : HasSnapshot(i)}

(* The k-th position that has a snapshot *)
ResolvedAt(k) == CHOOSE i \in Resolved : Cardinality({j \in Resolved : j <= i}) = k

Fires(reason, data) ==
    CASE reason = Below50 -> data.price < data.ma50
      [] reason = Overbought -> data.rsi > 70
      [] reason = Oversold -> data.rsi <= 70 /\ data.rsi < 30
      [] reason = HighVolumeFall ->
            data.change_percent < -2 /\ 2 * data.volume > 3 * data.avg_vol
      [] reason = SellingPressure ->
            data.change_percent < -2 /\ ~(2 * data.volume > 3 * data.avg_vol)

Weight(reason) ==
    CASE reason = Below50 -> -2
      [] reason = Overbought -> -1
      [] reason = Oversold -> 1
      [] reason = HighVolumeFall -> -2
      [] reason = SellingPressure -> -1

AllReasons == <<Below50, Overbought, Oversold, HighVolumeFall, SellingPressure>>

ExpectedReasons(data) == SelectSeq(AllReasons, LAMBDA reason : Fires(reason, data))

ExpectedScore(data) ==
    LET fired == {k \in 1..Len(AllReasons) : Fires(AllReasons[k], data)}
        W(k) == IF k \in fired THEN Weight(AllReasons[k]) ELSE 0
    IN  W(1) + W(2) + W(3) + W(4) + W(5)

(* C2: the score handed to _get_final_advice for a position with a snapshot *)
(* is the sum of -2 (price below the 50-day average), -1 (RSI > 70) or else *)
(* +1 (RSI < 30), -2 (change < -2 on volume above 1.5 x average) or else -1 *)
(* (change < -2), the reasons are those of the terms that applied, in this  *)
(* order, and the score lies in -5..1.                                     *)
C2_ScoreIsSumOfSignals ==
    Returned(rets.advice) =>
        /\ Len(rets.advice.value) = Cardinality(Resolved)
        /\ \A k \in 1..Len(rets.advice.value) :
             LET entry == rets.advice.value[k]
                 data == SnapshotOf(ResolvedAt(k))
             IN  /\ entry.score = ExpectedScore(data)
                 /\ entry.reasons = ExpectedReasons(data)
                 /\ entry.score \in -5..1

(* A position scored -5 with all three negative reasons *)
C2_Witness ==
    /\ Returned(rets.advice)
    /\ \E k \in 1..Len(rets.advice.value) :
         /\ rets.advice.value[k].score = -5
         /\ rets.advice.value[k].reasons = <<Below50, Overbought, HighVolumeFall>>

MarketValue(i) == args.portfolio[i].quantity * SnapshotOf(i).price

RECURSIVE SumValues(_)
SumValues(I) ==
    IF I = {} THEN 0
    ELSE LET i == CHOOSE i \in I : TRUE IN MarketValue(i) + SumValues(I \ {i})

TotalValued == SumValues(Resolved)

SectorValue(sector) == SumValues({i \in Resolved : SnapshotOf(i).sector = sector})

PresentSectors == {SnapshotOf(i).sector : i \in Resolved}

(* value / total > 40 / 100, for a total that is not zero *)
ShareAbove40(value, total) == 5 * value * total > 2 * total * total

Named(verdict) == {verdict.sectors[k] : k \in 1..Len(verdict.sectors)}

C5_ZeroTotalNeverDivides ==
    rets.verdict # NoRet =>
        /\ Returned(rets.verdict)
        /\ TotalValued = 0 =>
             /\ rets.verdict.value.verdict = MissingDataVerdict
             /\ rets.verdict.value.divisors = <<>>
        /\ \A k \in 1..Len(rets.verdict.value.divisors) :
             rets.verdict.value.divisors[k] # 0

(* A portfolio whose priced positions cancel to a total of zero *)
C5_Witness ==
    /\ Returned(rets.verdict)
    /\ Resolved # {}
    /\ \E i \in Resolved : MarketValue(i) # 0
    /\ TotalValued = 0
    /\ rets.verdict.value.verdict = MissingDataVerdict

(* C6: generate_advice returns one advice entry for each position whose     *)
(* ticker is a key of the snapshot mapping, in portfolio order, and none    *)
(* for the others; it never raises.                                        *)
C6_OneEntryPerResolvedPosition ==
    rets.advice # NoRet =>
        /\ Returned(rets.advice)
        /\ Len(rets.advice.value) = Cardinality(Resolved)
        /\ \A k \in 1..Len(rets.advice.value) :
             rets.advice.value[k].ticker = args.portfolio[ResolvedAt(k)].ticker

Holds == {HoldRecovery, HoldUpside}

AdviceGiven(entries) == {entries[k].advice : k \in 1..Len(entries)}

(* C10: no advice of the /analyse handler is HoldRecovery or HoldUpside,    *)
(* and generate_advice gives one of the two only under the Aggressive       *)
(* profile.                                                                *)
C10_EndpointNeverHolds ==
    /\ Returned(rets.response) => AdviceGiven(rets.response.value.advice) \cap Holds = {}
    /\ (Returned(rets.advice) /\ AdviceGiven(rets.advice.value) \cap Holds # {})
          => rets.risk = "Aggressive"

(* The handler scores a position +1, the highest score there is, and the    *)
(* advice is HoldMonitor.                                                  *)
C10_Witness ==
    /\ Returned(rets.response)
    /\ \E k \in 1..Len(rets.response.value.advice) :
         /\ rets.response.value.advice[k].score = 1
         /\ rets.response.value.advice[k].advice = HoldMonitor

-----------------------------------------------------------------------------
(* Properties of the /analyse handler, checked under Spec *)

Passed(r) == requests[r].portfolio_data # <<>>

Done(r) == requests[r].pc = "done"

Billing(r) ==
    requests[r].pc \in {"load_portfolios_analyzed", "store_portfolios_analyzed",
                        "load_advice_generated", "store_advice_generated",
                        "load_total_bill", "store_total_bill"}

Scored(r) ==
    {i \in 1..Len(requests[r].portfolio_data) :
        requests[r].portfolio_data[i].ticker \in DOMAIN requests[r].live_market_data}

(* C4: a position whose averagePrice is not positive never reaches the      *)
(* scorer, and the P/L division never fails on a zero averagePrice.         *)
C4_NonPositiveAveragePriceRejected ==
    \A r \in Requests :
        /\ requests[r].printed # "ZeroDivisionError"
        /\ requests[r].core_started =>
             \A i \in Scored(r) : requests[r].portfolio_data[i].averagePrice > 0

(* C7: a request that passed the non-empty-portfolio check ends with a      *)
(* result, or with the failure of the data fetch before the core started.   *)
C7_FailsOnlyBeforeCore ==
    \A r \in Requests :
        (Done(r) /\ Passed(r)) =>
            \/ requests[r].response.status = 200
            \/ /\ requests[r].response.status = 500
               /\ ~requests[r].core_started
               /\ requests[r].response.body =
                     "Could not fetch live market data for the provided tickers."

(* C8: a request with a negative quantity never reaches the core and never  *)
(* ends with a result.                                                     *)
C8_NegativeQuantityRejected ==
    \A r \in Requests :
        (\E i \in 1..Len(requests[r].portfolio_data) :
            requests[r].portfolio_data[i].quantity < 0) =>
                /\ ~requests[r].core_started
                /\ Done(r) => requests[r].response.status # 200

(* C9: whenever no request is inside its billing update, total_bill is      *)
(* 2.00 x portfolios_analyzed + 0.25 x advice_generated and                 *)
(* portfolios_analyzed is the number of requests that passed the            *)
(* non-empty-portfolio check.                                              *)
C9_TrackerConsistent ==
    (\A r \in Requests : ~Billing(r)) =>
        /\ usage_tracker.total_bill =
              COST_PER_PORTFOLIO * usage_tracker.portfolios_analyzed
                + COST_PER_ADVICE * usage_tracker.advice_generated
        /\ usage_tracker.portfolios_analyzed = Cardinality({r \in Requests : Passed(r)})

====
